---- MODULE Spec2Model ----
(***************************************************************************)
(* A model of asterix.py, the schema-driven ASTERIX decoder.               *)
(*                                                                         *)
(* A byte is an integer in 0..255 and a stream is a sequence of bytes      *)
(* together with the number of bytes already consumed.  A schema node is   *)
(* a record [tag, attrib, children]: tag is the XML tag without its        *)
(* namespace, attrib is a record that has a field exactly for the XML      *)
(* attributes the node carries (has_key is membership in its DOMAIN) and   *)
(* children is the sequence of child elements.  Attribute values are held  *)
(* as the numbers int() and float() make of them; a factor is the pair     *)
(* <<numerator, denominator>>.  A raised exception is the result with      *)
(* ok = FALSE.                                                             *)
(***************************************************************************)
EXTENDS Integers, Sequences, FiniteSets, TLC

VARIABLES stream, schema, io, pc, cat, length, records, result, returned,
          last, log, history

vars == <<stream, schema, io, pc, cat, length, records, result, returned,
          last, log, history>>

\* ------------------------------------------------------------------ bounds

\* Longest byte stream given to parse_asterix.
MaxStreamLen == 7

\* Longest byte stream given to a single decoder call.
MaxNodeLen == 4

\* Cap on the record loop of one block: one more than a block of a stream of
\* MaxStreamLen bytes can hold when every record consumes a byte.
MaxRecords == MaxStreamLen - 2

\* ----------------------------------------------------------------- helpers

Min(a, b) == IF a < b THEN a ELSE b

RECURSIVE Pow2(_)
Pow2(n) == IF n = 0 THEN 1 ELSE 2 * Pow2(n - 1)

RECURSIVE GCD(_, _)
GCD(a, b) == IF b = 0 THEN a ELSE GCD(b, a % b)

\* The empty dict.
EmptyDict == [k \in {} |-> 0]

\* One-entry dict {key: value}.
Dict1(key, value) == [k \in {key} |-> value]

\* dict.update: the keys of b overwrite those of a.
DictUpdate(a, b) ==
  [k \in (DOMAIN a) \cup (DOMAIN b) |-> IF k \in DOMAIN b THEN b[k] ELSE a[k]]

\* Field values: a Python int, a Python float (an exact dyadic rational in
\* lowest terms) or a Python str.
IntValue(n) == [kind |-> "int", num |-> n, den |-> 1, text |-> ""]

FloatValue(n, d) ==
  LET g == GCD(n, d)
  IN  IF n = 0 THEN [kind |-> "float", num |-> 0, den |-> 1, text |-> ""]
      ELSE [kind |-> "float", num |-> n \div g, den |-> d \div g, text |-> ""]

StrValue(s) == [kind |-> "str", num |-> 0, den |-> 1, text |-> s]

\* schema.attrib.has_key(name)
has_key(node, name) == name \in DOMAIN node.attrib

\* ------------------------------------------------------------- CountingIO

\* stream.read(size) of the underlying stream: at most size bytes, fewer at
\* the end of the input.
StreamRead(s, pos, size) == SubSeq(s, pos + 1, Min(pos + size, Len(s)))

\* CountingIO.read with total counting the size asked for, not the bytes got.
CountingIO_read_size(s, c, size) ==
  LET data == StreamRead(s, c.pos, size)
  IN  [data |-> data,
       io   |-> [pos |-> c.pos + Len(data), total |-> c.total + size]]

\* CountingIO.read: c is [pos, total], pos the position of the wrapped stream.
CountingIO_read(s, c, size) ==
  LET data == StreamRead(s, c.pos, size)
  IN  [data |-> data,
       io   |-> [pos |-> c.pos + Len(data), total |-> c.total + Len(data)]]

\* --------------------------------------------------------- decoder results

\* What a decoder call leaves: ok (FALSE: an exception was raised), the stream
\* afterwards, the dict returned, the leaf reads made (tag, id, position
\* before, bytes asked for, bytes got) and the 0-based positions of the
\* node's own children that were dispatched, in order.
Raised(c, lg) ==
  [ok |-> FALSE, io |-> c, fields |-> EmptyDict, reads |-> lg, decoded |-> <<>>]

Returned(c, f, lg, dec) ==
  [ok |-> TRUE, io |-> c, fields |-> f, reads |-> lg, decoded |-> dec]

LeafRead(node, c, want, got) ==
  [tag |-> node.tag, id |-> node.attrib.id, at |-> c.pos,
   want |-> want, got |-> got]

\* ---------------------------------------------------------- bitmap octets

\* fspec_bits = [(octet >> i) & 1 for i in xrange(0, 8)]
Bit(octet, i) == (octet \div Pow2(i)) % 2

\* The seven bits appended least significant first.
OctetBits_lsb_first(octet) ==
  <<Bit(octet, 1), Bit(octet, 2), Bit(octet, 3), Bit(octet, 4),
    Bit(octet, 5), Bit(octet, 6), Bit(octet, 7)>>

\* for i in xrange(7, 0, -1): fspec.append(fspec_bits[i])
OctetBits(octet) ==
  <<Bit(octet, 7), Bit(octet, 6), Bit(octet, 5), Bit(octet, 4),
    Bit(octet, 3), Bit(octet, 2), Bit(octet, 1)>>

\* The while True loop of parse_fspec and of parse_fx: struct.unpack raises
\* when the read returns no byte.
RECURSIVE ReadBitmap(_, _, _)
ReadBitmap(s, c, bits) ==
  LET r == CountingIO_read(s, c, 1)
  IN  IF Len(r.data) # 1
      THEN [ok |-> FALSE, io |-> r.io, bits |-> bits]
      ELSE LET more == bits \o OctetBits(r.data[1])
           IN  IF Bit(r.data[1], 0) = 0
               THEN [ok |-> TRUE, io |-> r.io, bits |-> more]
               ELSE ReadBitmap(s, r.io, more)

\* ---------------------------------------------------------- parse_number

Reverse(seq) == [i \in 1..Len(seq) |-> seq[Len(seq) + 1 - i]]

\* sum(byte << (i * 8) for i, byte in enumerate(seq)), i counted from 0.
RECURSIVE SumShifted(_)
SumShifted(seq) ==
  IF Len(seq) = 0 THEN 0
  ELSE SumShifted(SubSeq(seq, 1, Len(seq) - 1))
       + seq[Len(seq)] * Pow2(8 * (Len(seq) - 1))

\* The sum taken over the bytes in read order: the first byte least significant.
UnsignedOf_unreversed(data) == SumShifted(data)

\* sum(... for i, c in enumerate(reversed(stream.read(octets))))
UnsignedOf(data) == SumShifted(Reverse(data))

\* number *= 1.0 / (1 << rshift), then number *= factor.
Scaled(node, number) ==
  LET v0 == IntValue(number)
      v1 == IF has_key(node, "rshift")
            THEN FloatValue(v0.num, v0.den * Pow2(node.attrib.rshift))
            ELSE v0
  IN  IF has_key(node, "factor")
      THEN FloatValue(v1.num * node.attrib.factor[1],
                      v1.den * node.attrib.factor[2])
      ELSE v1

parse_number(s, c, node) ==
  IF ~has_key(node, "octets") THEN Raised(c, <<>>)
  ELSE LET r == CountingIO_read(s, c, node.attrib.octets)
       IN  IF ~has_key(node, "id") THEN Raised(r.io, <<>>)
           ELSE Returned(r.io,
                         Dict1(node.attrib.id, Scaled(node, UnsignedOf(r.data))),
                         <<LeafRead(node, c, node.attrib.octets, Len(r.data))>>,
                         <<>>)

\* --------------------------------------------------------- parse_unknown

HexDigits ==
  <<"0", "1", "2", "3", "4", "5", "6", "7",
    "8", "9", "a", "b", "c", "d", "e", "f">>

\* '%02x' % (ord(octet),)
Hex02(octet) == HexDigits[(octet \div 16) + 1] \o HexDigits[(octet % 16) + 1]

\* sep.join(parts)
RECURSIVE Join(_, _)
Join(sep, parts) ==
  IF Len(parts) = 0 THEN ""
  ELSE IF Len(parts) = 1 THEN parts[1]
  ELSE parts[1] \o sep \o Join(sep, Tail(parts))

\* The dump with the octets run together, no separator.
hexdump_unseparated(data) == Join("", [i \in 1..Len(data) |-> Hex02(data[i])])

\* ' '.join('%02x' % (ord(octet),) for octet in stream.read(octets))
hexdump(data) == Join(" ", [i \in 1..Len(data) |-> Hex02(data[i])])

\* parse_unknown reading the octets before it looks at failure_info.
parse_unknown_read_first(s, c, node) ==
  IF ~has_key(node, "octets") THEN Raised(c, <<>>)
  ELSE LET r == CountingIO_read(s, c, node.attrib.octets)
       IN  IF has_key(node, "failure_info") THEN Raised(r.io, <<>>)
           ELSE IF ~has_key(node, "id") THEN Raised(r.io, <<>>)
           ELSE Returned(r.io,
                         Dict1(node.attrib.id,
                               StrValue("UNKNOWN " \o hexdump(r.data))),
                         <<LeafRead(node, c, node.attrib.octets, Len(r.data))>>,
                         <<>>)

parse_unknown(s, c, node) ==
  IF has_key(node, "failure_info") THEN Raised(c, <<>>)
  ELSE IF ~has_key(node, "octets") THEN Raised(c, <<>>)
  ELSE IF ~has_key(node, "id") THEN Raised(c, <<>>)
  ELSE LET r == CountingIO_read(s, c, node.attrib.octets)
       IN  Returned(r.io,
                    Dict1(node.attrib.id,
                          StrValue("UNKNOWN " \o hexdump(r.data))),
                    <<LeafRead(node, c, node.attrib.octets, Len(r.data))>>,
                    <<>>)

\* -------------------------------------------------------------- parse_fx

\* ''.join('%d' % (bit,) for bit in fx)
bitdump(bits) ==
  Join("", [i \in 1..Len(bits) |-> IF bits[i] = 1 THEN "1" ELSE "0"])

parse_fx(s, c, node) ==
  LET bm == ReadBitmap(s, c, <<>>)
  IN  IF ~bm.ok THEN Raised(bm.io, <<>>)
      ELSE IF ~has_key(node, "id") THEN Raised(bm.io, <<>>)
      ELSE Returned(bm.io,
                    Dict1(node.attrib.id,
                          StrValue("UNKNOWN FX " \o bitdump(bm.bits))),
                    <<>>, <<>>)

\* -------------------------------------------- parse_multi, parse_fspec

RECURSIVE parse_any(_, _, _)

\* for subschema in schema.iterchildren(tag='*'):
\*     result.update(parse_any(stream, subschema))
\* from child i on; acc is the result so far.  An exception in a child ends
\* the loop.
RECURSIVE multi_loop(_, _, _, _)
multi_loop(s, children, i, acc) ==
  IF i > Len(children) THEN acc
  ELSE LET r == parse_any(s, acc.io, children[i])
       IN  IF ~r.ok THEN Raised(r.io, acc.reads \o r.reads)
           ELSE multi_loop(s, children, i + 1,
                           Returned(r.io, DictUpdate(acc.fields, r.fields),
                                    acc.reads \o r.reads,
                                    Append(acc.decoded, i - 1)))

parse_multi(s, c, node) ==
  multi_loop(s, node.children, 1, Returned(c, EmptyDict, <<>>, <<>>))

\* i < len(fspec) and fspec[i] == 1, i the 0-based position of the child.
Present(fspec, i) == i < Len(fspec) /\ fspec[i + 1] = 1

\* for i, subschema in enumerate(schema_children, 0):
\*     if i < len(fspec) and fspec[i] == 1:
\*         result.update(parse_any(stream, subschema))
\* from the child at 1-based index k on.
RECURSIVE fspec_loop(_, _, _, _, _)
fspec_loop(s, children, fspec, k, acc) ==
  IF k > Len(children) THEN acc
  ELSE IF ~Present(fspec, k - 1)
  THEN fspec_loop(s, children, fspec, k + 1, acc)
  ELSE LET r == parse_any(s, acc.io, children[k])
       IN  IF ~r.ok THEN Raised(r.io, acc.reads \o r.reads)
           ELSE fspec_loop(s, children, fspec, k + 1,
                           Returned(r.io, DictUpdate(acc.fields, r.fields),
                                    acc.reads \o r.reads,
                                    Append(acc.decoded, k - 1)))

\* The check of lines 92-94 left out.
UnknownFRN_unchecked(fspec, nchildren) == FALSE

\* for i in xrange(len(schema_children), len(fspec)):
\*     if fspec[i] == 1: raise Exception('Unknown FRN %r', i + 1)
UnknownFRN(fspec, nchildren) ==
  \E i \in nchildren .. (Len(fspec) - 1) : fspec[i + 1] = 1

parse_fspec(s, c, node) ==
  LET bm == ReadBitmap(s, c, <<>>)
  IN  IF ~bm.ok THEN Raised(bm.io, <<>>)
      ELSE LET r == fspec_loop(s, node.children, bm.bits, 1,
                               Returned(bm.io, EmptyDict, <<>>, <<>>))
           IN  IF ~r.ok THEN r
               ELSE IF UnknownFRN(bm.bits, Len(node.children))
               THEN Raised(r.io, r.reads)
               ELSE r

\* ------------------------------------------------------------- parse_any

\* parsers[schema.tag](stream, schema) for the nodes below the root; a tag
\* that is no key of parsers raises KeyError.  The root, of tag schema, is
\* decoded by the actions of parse_asterix below and is never the child of
\* another node.
parse_any(s, c, node) ==
  CASE node.tag = "fspec"   -> parse_fspec(s, c, node)
    [] node.tag = "fx"      -> parse_fx(s, c, node)
    [] node.tag = "multi"   -> parse_multi(s, c, node)
    [] node.tag = "list"    -> parse_unknown(s, c, node)
    [] node.tag = "number"  -> parse_number(s, c, node)
    [] node.tag = "bool"    -> parse_unknown(s, c, node)
    [] node.tag = "enum"    -> parse_unknown(s, c, node)
    [] node.tag = "unknown" -> parse_unknown(s, c, node)
    [] OTHER                -> Raised(c, <<>>)

\* ------------------------------------------------------ schemas and streams

Leaf(tag, attrib) == [tag |-> tag, attrib |-> attrib, children |-> <<>>]

Composite(tag, children) ==
  [tag |-> tag, attrib |-> [id |-> tag], children |-> children]

\* Every byte sequence over bytes of at most n bytes.
RECURSIVE SeqsUpTo(_, _)
SeqsUpTo(bytes, n) ==
  IF n = 0 THEN {<<>>}
  ELSE LET shorter == SeqsUpTo(bytes, n - 1)
       IN  shorter \cup {Append(q, b) : q \in shorter, b \in bytes}

ChildIds == <<"a", "b", "c", "d", "e", "f", "g", "h">>

\* n one-octet number children with distinct ids.
Kids(n) ==
  [i \in 1..n |-> Leaf("number", [id |-> ChildIds[i], octets |-> 1])]

\* n one-octet number children whose ids alternate between a and b.
DupKids(n) ==
  [i \in 1..n |-> Leaf("number", [id |-> ChildIds[2 - (i % 2)], octets |-> 1])]

Forbidden == Leaf("unknown", [id |-> "z", failure_info |-> "reserved"])

NumberNodes ==
  {Leaf("number", a) :
     a \in {[id |-> "n", octets |-> o] : o \in 1..2}
      \cup {[id |-> "n", octets |-> o, rshift |-> r] : o \in 1..2, r \in {1, 3}}
      \cup {[id |-> "n", octets |-> o, factor |-> f] :
              o \in 1..2, f \in {<<2, 1>>, <<1, 4>>}}
      \cup {[id |-> "n", octets |-> o, rshift |-> r, factor |-> f] :
              o \in 1..2, r \in {1, 3}, f \in {<<2, 1>>, <<1, 4>>}}
      \cup {[id |-> "n"]}}

UnknownTags == {"unknown", "list", "bool", "enum"}

UnknownNodes ==
  {Leaf(tg, [id |-> "u", octets |-> o]) : tg \in UnknownTags, o \in 1..2}
   \cup {Leaf(tg, [id |-> "u", failure_info |-> "reserved"]) : tg \in UnknownTags}
   \cup {Leaf(tg, [id |-> "u", octets |-> o, failure_info |-> "reserved"]) :
           tg \in UnknownTags, o \in 1..2}
   \cup {Leaf("unknown", [id |-> "u"])}
   \cup {Composite("multi", <<Leaf(tg, [id |-> "u", octets |-> o]),
                              Leaf("number", [id |-> "n", octets |-> 1])>>) :
           tg \in UnknownTags, o \in 1..2}

BitmapNodes ==
  {Composite("fspec", Kids(n)) : n \in {0, 2, 4, 7, 8}}
   \cup {Composite("fspec", DupKids(4)),
         Composite("fspec", <<Leaf("number", [id |-> "a", octets |-> 2]),
                              Leaf("unknown", [id |-> "b", octets |-> 1]),
                              Composite("multi", DupKids(2)),
                              Forbidden>>),
         Composite("multi", <<>>),
         Composite("multi", DupKids(3)),
         Composite("multi", <<Composite("fspec", Kids(1)), Forbidden>>),
         Leaf("fx", [id |-> "x"]),
         Leaf("time", [id |-> "t"])}

NumberBytes == {0, 10, 171}

HexBytes == {10, 171, 205}

BitmapBytes == {0, 10, 128, 129, 176}

\* The (node, stream) pairs a single decoder call is checked on.
NodeInputs ==
  (NumberNodes \X SeqsUpTo(NumberBytes, MaxNodeLen))
   \cup (UnknownNodes \X SeqsUpTo(HexBytes, MaxNodeLen))
   \cup (BitmapNodes \X SeqsUpTo(BitmapBytes, MaxNodeLen))

\* ------------------------------------------- one decoder call: parse_any

Fresh == [pos |-> 0, total |-> 0]

NoCall == Raised(Fresh, <<>>)

InitNode ==
  /\ \E input \in NodeInputs : schema = input[1] /\ stream = input[2]
  /\ io = Fresh
  /\ pc = "call"
  /\ cat = 0
  /\ length = 0
  /\ records = <<>>
  /\ result = <<>>
  /\ returned = <<>>
  /\ last = NoCall
  /\ log = <<>>
  /\ history = <<>>

\* parse_any(stream, schema) called on a node below the root.
Dispatch ==
  /\ pc = "call"
  /\ last' = parse_any(stream, io, schema)
  /\ io' = last'.io
  /\ pc' = IF last'.ok THEN "return" ELSE "raise"
  /\ UNCHANGED <<stream, schema, cat, length, records, result, returned,
                 log, history>>

NextNode == Dispatch

SpecNode == InitNode /\ [][NextNode]_vars

\* --------------------------------------------------------- parse_asterix

DecDigits == <<"0", "1", "2", "3", "4", "5", "6", "7", "8", "9">>

\* 'cat%03d' % (cat,) for a category of at most three digits.
CatKey(c) ==
  "cat" \o DecDigits[(c \div 100) + 1] \o DecDigits[((c \div 10) % 10) + 1]
        \o DecDigits[(c % 10) + 1]

\* The positions of the children of root whose id is the key of category c.
Matches(root, c) ==
  {i \in 1..Len(root.children) :
     /\ has_key(root.children[i], "id")
     /\ root.children[i].attrib.id = CatKey(c)}

\* A lookup that falls back on the first category of the schema.
find_or_first(root, c) ==
  IF Matches(root, c) = {} THEN 1
  ELSE CHOOSE i \in Matches(root, c) : \A j \in Matches(root, c) : i <= j

\* schema.find('*[@id="cat%03d"]' % (cat,)): the position of the first child
\* with that id, 0 for None.
find(root, c) ==
  IF Matches(root, c) = {} THEN 0
  ELSE CHOOSE i \in Matches(root, c) : \A j \in Matches(root, c) : i <= j

\* struct.unpack('>H', two bytes)
UnpackH(data) == data[1] * 256 + data[2]

\* The new block put in front of the list.
AppendBlock_front(blocks, blk) == <<blk>> \o blocks

\* result.append({'cat': cat, 'records': records})
AppendBlock(blocks, blk) == Append(blocks, blk)

Category(tag, c, attrib, children) ==
  [tag |-> tag, attrib |-> [id |-> CatKey(c)] @@ attrib, children |-> children]

Root(children) == [tag |-> "schema", attrib |-> EmptyDict, children |-> children]

Roots ==
  {Root(<<Category("number", 3, [octets |-> 1], <<>>),
          Category("multi", 4, EmptyDict, <<>>),
          Category("unknown", 5, [failure_info |-> "reserved"], <<>>)>>),
   Root(<<Category("list", 0, [octets |-> 2, failure_info |-> "reserved"], <<>>),
          Category("number", 3, [octets |-> 2, rshift |-> 1], <<>>),
          Category("fspec", 4, EmptyDict, Kids(7)),
          Category("multi", 5, EmptyDict,
                   <<Leaf("number", [id |-> "n", octets |-> 1]),
                     Leaf("enum", [id |-> "z", octets |-> 1,
                                   failure_info |-> "reserved"])>>)>>)}

StreamBytes == {0, 3, 4, 5}

NoLog == [start |-> 0, recs |-> <<>>]

Init ==
  /\ schema \in Roots
  /\ stream \in SeqsUpTo(StreamBytes, MaxStreamLen)
  /\ io = Fresh
  /\ pc = "block"
  /\ cat = 0
  /\ length = 0
  /\ records = <<>>
  /\ result = <<>>
  /\ returned = <<>>
  /\ last = NoCall
  /\ log = NoLog
  /\ history = <<>>

\* Lines 55-63: a new CountingIO, the category octet, the subschema lookup.
ReadCat ==
  /\ pc = "block"
  /\ LET r == CountingIO_read(stream, [pos |-> io.pos, total |-> 0], 1)
     IN  /\ io' = r.io
         /\ log' = [start |-> io.pos, recs |-> <<>>]
         /\ IF Len(r.data) = 0
            THEN /\ pc' = "done"
                 /\ returned' = result
                 /\ UNCHANGED cat
            ELSE /\ cat' = r.data[1]
                 /\ pc' = IF find(schema, r.data[1]) = 0 THEN "error" ELSE "length"
                 /\ UNCHANGED returned
  /\ UNCHANGED <<stream, schema, length, records, result, last, history>>

\* Lines 64-65: the declared length; struct.unpack raises on a short read.
ReadLength ==
  /\ pc = "length"
  /\ LET r == CountingIO_read(stream, io, 2)
     IN  /\ io' = r.io
         /\ IF Len(r.data) # 2
            THEN /\ pc' = "error"
                 /\ UNCHANGED <<length, records>>
            ELSE /\ length' = UnpackH(r.data)
                 /\ records' = <<>>
                 /\ pc' = "records"
  /\ UNCHANGED <<stream, schema, cat, result, returned, last, log, history>>

\* Lines 66-67: one turn of the record loop.
RecordLoop ==
  /\ pc = "records"
  /\ io.total < length
  /\ Len(records) < MaxRecords
  /\ last' = parse_any(stream, io, schema.children[find(schema, cat)])
  /\ io' = last'.io
  /\ log' = [log EXCEPT !.recs =
               Append(@, [at |-> io.pos, end |-> last'.io.pos,
                          reads |-> last'.reads])]
  /\ IF last'.ok
     THEN /\ records' = Append(records, last'.fields)
          /\ UNCHANGED pc
     ELSE /\ pc' = "error"
          /\ UNCHANGED records
  /\ UNCHANGED <<stream, schema, cat, length, result, returned, history>>

\* Lines 68-73: the length check and the append of the block.
EndBlock ==
  /\ pc = "records"
  /\ io.total >= length
  /\ IF io.total # length
     THEN /\ pc' = "error"
          /\ UNCHANGED <<result, history>>
     ELSE /\ result' = AppendBlock(result, [cat |-> cat, records |-> records])
          /\ history' = Append(history, [start |-> log.start, length |-> length,
                                         recs |-> log.recs])
          /\ pc' = "block"
  /\ UNCHANGED <<stream, schema, io, cat, length, records, returned, last, log>>

Next == ReadCat \/ ReadLength \/ RecordLoop \/ EndBlock

Spec == Init /\ [][Next]_vars

\* ==================================================== properties: Spec

\* The subschema of the block being decoded.
Subschema == schema.children[find(schema, cat)]

\* The bytes the stream moved forward over the records logged in recs.
RECURSIVE BytesOfRecords(_)
BytesOfRecords(recs) ==
  IF Len(recs) = 0 THEN 0
  ELSE (recs[Len(recs)].end - recs[Len(recs)].at)
       + BytesOfRecords(SubSeq(recs, 1, Len(recs) - 1))

\* C1: whenever parse_asterix appends a Data Block, the counter equals the
\* declared length and the stream has moved forward by the declared length
\* less 3 while the block's records were decoded; and when the record loop
\* is left with the counter different from the declared length (which
\* includes every declared length below 3), the decode ends in an error and
\* nothing is appended.
C1_BlockLength ==
  [][/\ (result' # result) =>
          /\ pc = "records"
          /\ Len(result') = Len(result) + 1
          /\ io.total = length
          /\ BytesOfRecords(log.recs) = length - 3
          /\ io.pos - log.start = length
          /\ Len(records) = Len(log.recs)
     /\ (pc = "records" /\ io.total >= length /\ io.total # length) =>
          (pc' = "error" /\ result' = result)
     /\ (pc = "records" /\ length < 3) => (pc' = "error" /\ result' = result)
    ]_vars

\* A block with two records has been appended.
C1_Witness ==
  /\ Len(result) >= 1
  /\ Len(result[1].records) = 2
  /\ history[1].length = 5

\* C2: every turn of the record loop that leaves the decode in the loop has
\* moved the stream forward, so that the loop, which ends once the counter
\* reaches the declared length, cannot run forever.
C2_EveryRecordAdvances ==
  [][(pc = "records" /\ pc' = "records") => io'.total > io.total]_vars

\* The position of block k of the stream, from the declared lengths alone.
RECURSIVE BlockStart(_)
BlockStart(k) ==
  IF k = 1 THEN 0
  ELSE LET b == BlockStart(k - 1)
       IN  b + stream[b + 2] * 256 + stream[b + 3]

\* C3: when the read of the category octet returns no byte, parse_asterix
\* returns, without error, the blocks completed so far: block k of the result
\* is the k-th block of the stream, with its category octet and with the
\* records decoded one after the other from its body; the blocks cover the
\* whole stream; an empty stream gives the empty list.
C3_EndOfInput ==
  pc = "done" =>
    /\ returned = result
    /\ io.pos = Len(stream)
    /\ Len(stream) = 0 => returned = <<>>
    /\ Len(returned) = Len(history)
    /\ \A k \in 1..Len(returned) :
         /\ history[k].start = BlockStart(k)
         /\ returned[k].cat = stream[BlockStart(k) + 1]
         /\ Len(returned[k].records) = Len(history[k].recs)
         /\ \A j \in 1..Len(returned[k].records) :
              /\ history[k].recs[j].at =
                   IF j = 1 THEN BlockStart(k) + 3
                   ELSE history[k].recs[j - 1].end
              /\ returned[k].records[j] =
                   parse_any(stream, [pos |-> history[k].recs[j].at, total |-> 0],
                             schema.children[find(schema, returned[k].cat)]).fields
    /\ BlockStart(Len(returned) + 1) = Len(stream)

\* Two blocks of different categories, the first with a record, returned.
C3_Witness ==
  /\ pc = "done"
  /\ Len(returned) = 2
  /\ returned[1].cat # returned[2].cat
  /\ Len(returned[1].records) = 1

\* No child of the root carries the key of category c.
NoSubtree(c) ==
  \A i \in 1..Len(schema.children) : schema.children[i].attrib.id # CatKey(c)

\* C4: when the category octet of a block has no subtree in the schema, the
\* decode ends in an error at once: only the category octet has been read,
\* no record is produced, nothing is returned to the caller, whatever blocks
\* were completed before; and nothing follows an error.
C4_UnknownCategory ==
  [][/\ pc # "error"
     /\ (pc = "block" /\ io.pos < Len(stream) /\ NoSubtree(stream[io.pos + 1])) =>
          /\ pc' = "error"
          /\ io'.pos = io.pos + 1
          /\ returned' = <<>>
          /\ result' = result
          /\ records' = records
          /\ last' = last
    ]_vars

\* An unknown category met after a completed block.
C4_Witness ==
  /\ pc = "error"
  /\ Len(result) = 1
  /\ NoSubtree(cat)
  /\ io.total = 1
  /\ returned = <<>>

\* C8: every Data Block parse_asterix returns holds only fields of number
\* and unknown nodes that were decoded from exactly octets bytes: no leaf read
\* made for a returned block got fewer bytes than it asked for.
C8_ExactOctets ==
  pc = "done" =>
    \A k \in 1..Len(history) :
      \A j \in 1..Len(history[k].recs) :
        \A m \in 1..Len(history[k].recs[j].reads) :
          history[k].recs[j].reads[m].got = history[k].recs[j].reads[m].want

\* The node is decoded by parse_unknown and carries failure_info.
IsForbidden(node) == node.tag \in UnknownTags /\ has_key(node, "failure_info")

\* A composite of a number and, after it, a forbidden node.
EndsForbidden(node) ==
  /\ node.tag = "multi"
  /\ Len(node.children) = 2
  /\ node.children[1].tag = "number"
  /\ IsForbidden(node.children[2])

\* C10: when the record loop dispatches a node of the Placeholder/Unknown
\* Decoder that carries failure_info, with or without octets, the decode ends
\* in an error at once: no byte is read for the node, no field and no record
\* is produced, nothing is returned to the caller, and nothing follows the
\* error.  The same holds when the node is reached inside a composite: the
\* only bytes read are those of the number before it.
C10_ForbiddenItem ==
  [][/\ pc # "error"
     /\ (pc = "records" /\ io.total < length /\ IsForbidden(Subschema)) =>
          /\ pc' = "error"
          /\ io' = io
          /\ last'.fields = EmptyDict
          /\ last'.reads = <<>>
          /\ records' = records
          /\ result' = result
          /\ returned' = <<>>
     /\ (pc = "records" /\ io.total < length /\ EndsForbidden(Subschema)) =>
          /\ pc' = "error"
          /\ Len(last'.reads) = 1
          /\ last'.reads[1].tag = "number"
          /\ io'.pos = io.pos + last'.reads[1].got
          /\ last'.fields = EmptyDict
          /\ records' = records
          /\ result' = result
          /\ returned' = <<>>
    ]_vars

\* A forbidden item with octets met, with bytes left to read, after a
\* completed block.
C10_Witness ==
  /\ pc = "error"
  /\ Len(result) = 1
  /\ find(schema, cat) # 0
  /\ IsForbidden(Subschema)
  /\ has_key(Subschema, "octets")
  /\ io.total = 3
  /\ io.total < length
  /\ io.pos < Len(stream)
  /\ ~last.ok
  /\ returned = <<>>

\* ================================================ properties: SpecNode

\* The bytes the first read of size bytes returns.
FirstRead(size) == [i \in 1..Min(size, Len(stream)) |-> stream[i]]

\* The unsigned big-endian value of a byte sequence, most significant first.
RECURSIVE Horner(_)
Horner(seq) ==
  IF Len(seq) = 0 THEN 0
  ELSE 256 * Horner(SubSeq(seq, 1, Len(seq) - 1)) + seq[Len(seq)]

\* C7: parse_number returns one field, keyed by the node's id: the unsigned
\* big-endian integer of the bytes read, as an integer when the node has
\* neither rshift nor factor, and otherwise the floating-point value of that
\* integer divided by 2^rshift and multiplied by factor; the bytes 0x00 0x0A
\* with rshift 1 and factor 2.0 give 10.0.
C7_NumberValue ==
  (pc # "call" /\ schema.tag = "number" /\ has_key(schema, "octets")) =>
    LET raw == Horner(FirstRead(schema.attrib.octets))
        r   == IF has_key(schema, "rshift") THEN schema.attrib.rshift ELSE 0
        f   == IF has_key(schema, "factor") THEN schema.attrib.factor ELSE <<1, 1>>
        v   == last.fields[schema.attrib.id]
    IN  /\ pc = "return"
        /\ DOMAIN last.fields = {schema.attrib.id}
        /\ v.den > 0
        /\ v.num * Pow2(r) * f[2] = raw * f[1] * v.den
        /\ v.kind = IF has_key(schema, "rshift") \/ has_key(schema, "factor")
                    THEN "float" ELSE "int"
        /\ v.kind = "int" => v.den = 1
        /\ (/\ FirstRead(schema.attrib.octets) = <<0, 10>>
            /\ r = 1
            /\ f = <<2, 1>>) => (v.num = 10 /\ v.den = 1)

\* 0x00 0x0A decoded with rshift 1 and factor 2.0.
C7_Witness ==
  /\ pc = "return"
  /\ schema.tag = "number"
  /\ has_key(schema, "rshift") /\ schema.attrib.rshift = 1
  /\ has_key(schema, "factor") /\ schema.attrib.factor = <<2, 1>>
  /\ schema.attrib.octets = 2
  /\ stream = <<0, 10>>
  /\ last.fields["n"] = [kind |-> "float", num |-> 10, den |-> 1, text |-> ""]

\* The hexadecimal form of the bytes the unknown nodes are decoded from.
HexTable(octet) ==
  CASE octet = 10  -> "0a"
    [] octet = 171 -> "ab"
    [] octet = 205 -> "cd"

\* The dump of a byte sequence built from the left.
RECURSIVE DumpOf(_)
DumpOf(data) ==
  IF Len(data) = 0 THEN ""
  ELSE IF Len(data) = 1 THEN HexTable(data[1])
  ELSE DumpOf(SubSeq(data, 1, Len(data) - 1)) \o " " \o HexTable(data[Len(data)])

\* The field an unknown node u gives for the bytes data.
UnknownField(data) ==
  [kind |-> "str", num |-> 0, den |-> 1, text |-> "UNKNOWN " \o DumpOf(data)]

\* An unknown, list, bool or enum node with octets and without failure_info.
IsPlaceholder(node) ==
  /\ node.tag \in UnknownTags
  /\ has_key(node, "octets")
  /\ ~has_key(node, "failure_info")

\* C9: a node of type unknown, list, bool or enum without failure_info is
\* decoded without error to one field, keyed by its id: the string UNKNOWN
\* followed by the two-digit lowercase hexadecimal forms of the bytes read, in
\* read order, separated by single spaces (0xAB 0xCD give "ab cd"); the field
\* that follows it in a composite is decoded from the stream position right
\* after those bytes.
C9_Placeholder ==
  /\ (pc # "call" /\ IsPlaceholder(schema)) =>
       /\ pc = "return"
       /\ DOMAIN last.fields = {schema.attrib.id}
       /\ last.fields[schema.attrib.id] =
            UnknownField(FirstRead(schema.attrib.octets))
       /\ last.io.pos = Len(FirstRead(schema.attrib.octets))
       /\ FirstRead(schema.attrib.octets) = <<171, 205>> =>
            last.fields[schema.attrib.id].text = "UNKNOWN ab cd"
  /\ (/\ pc # "call"
      /\ schema.tag = "multi"
      /\ Len(schema.children) = 2
      /\ IsPlaceholder(schema.children[1])) =>
       LET first == FirstRead(schema.children[1].attrib.octets)
       IN  /\ pc = "return"
           /\ DOMAIN last.fields = {"u", "n"}
           /\ last.fields["u"] = UnknownField(first)
           /\ Len(last.reads) = 2
           /\ last.reads[2].at = Len(first)
           /\ last.fields["n"] =
                [kind |-> "int",
                 num |-> IF Len(first) < Len(stream)
                         THEN stream[Len(first) + 1] ELSE 0,
                 den |-> 1, text |-> ""]

\* 0xAB 0xCD decoded by an unknown node of two octets, and the next field
\* decoded from the byte after them.
C9_Witness ==
  /\ pc = "return"
  /\ schema.tag = "multi"
  /\ Len(schema.children) = 2
  /\ schema.children[1].tag = "unknown"
  /\ stream = <<171, 205, 10>>
  /\ last.fields["u"].text = "UNKNOWN ab cd"
  /\ last.fields["n"].num = 10

\* The number of octets of the bitmap at the head of the stream: the position
\* of the first octet whose bit 0 is 0; 0 when the stream holds none.
BitmapOctets ==
  IF \E k \in 1..Len(stream) : stream[k] % 2 = 0
  THEN CHOOSE k \in 1..Len(stream) :
         /\ stream[k] % 2 = 0
         /\ \A j \in 1..(k - 1) : stream[j] % 2 = 1
  ELSE 0

\* Position i (0-based) of the presence sequence: bit 7 - (i mod 7) of octet
\* i div 7 of the bitmap.
PresenceBit(i) == (stream[(i \div 7) + 1] \div Pow2(7 - (i % 7))) % 2

\* The 0-based positions of the children the bitmap marks as present.
PresentKids == {i \in 0..(Len(schema.children) - 1) :
                  i < 7 * BitmapOctets /\ PresenceBit(i) = 1}

\* The children of the node are one-octet number nodes without scaling.
PlainKids ==
  \A i \in 1..Len(schema.children) :
    /\ schema.children[i].tag = "number"
    /\ DOMAIN schema.children[i].attrib = {"id", "octets"}
    /\ schema.children[i].attrib.octets = 1

\* The byte the j-th leaf read after the bitmap gets, 0 for a read at the end
\* of the stream.
ByteAfterBitmap(j) ==
  IF BitmapOctets + j <= Len(stream) THEN stream[BitmapOctets + j] ELSE 0

\* C5: parse_fspec reads octets up to and including the first whose bit 0 is
\* 0 and no further bitmap octet; the presence sequence is bits 7..1 of each
\* octet in read order; the children decoded are, in schema order, exactly
\* those whose position in the presence sequence exists and holds 1, the
\* first of them read right after the bitmap; their fields are merged, a
\* later child overwriting an earlier one of the same id.  The octet
\* 0b10110000 with at least 4 children decodes children 0, 2 and 3.
C5_PresenceBitmap ==
  (pc = "return" /\ schema.tag = "fspec") =>
    /\ BitmapOctets >= 1
    /\ {last.decoded[j] : j \in 1..Len(last.decoded)} = PresentKids
    /\ \A j \in 1..(Len(last.decoded) - 1) : last.decoded[j] < last.decoded[j + 1]
    /\ Len(last.reads) > 0 => last.reads[1].at = BitmapOctets
    /\ last.decoded = <<>> => last.io.pos = BitmapOctets
    /\ (stream[1] = 176 /\ Len(schema.children) >= 4) => last.decoded = <<0, 2, 3>>
    /\ PlainKids =>
         /\ Len(last.reads) = Len(last.decoded)
         /\ \A j \in 1..Len(last.reads) :
              last.reads[j].at = Min(BitmapOctets + j - 1, Len(stream))
         /\ DOMAIN last.fields =
              {schema.children[i + 1].attrib.id : i \in PresentKids}
         /\ \A key \in DOMAIN last.fields :
              LET j == CHOOSE j \in 1..Len(last.decoded) :
                         /\ schema.children[last.decoded[j] + 1].attrib.id = key
                         /\ \A m \in (j + 1)..Len(last.decoded) :
                              schema.children[last.decoded[m] + 1].attrib.id # key
              IN  last.fields[key] =
                    [kind |-> "int", num |-> ByteAfterBitmap(j), den |-> 1,
                     text |-> ""]

\* The octet 0b10110000 decoded against four children that share two ids.
C5_Witness ==
  /\ pc = "return"
  /\ schema.tag = "fspec"
  /\ Len(schema.children) = 4
  /\ PlainKids
  /\ schema.children[1].attrib.id = schema.children[3].attrib.id
  /\ stream = <<176, 10, 128, 129>>
  /\ last.decoded = <<0, 2, 3>>
  /\ last.fields["a"].num = 128
  /\ last.fields["b"].num = 129

\* A position of the presence sequence at or beyond the number of children
\* holds 1.
ExtraBit ==
  \E i \in Len(schema.children)..(7 * BitmapOctets - 1) : PresenceBit(i) = 1

\* C6: in parse_fspec a 1 in the presence sequence at a position at or beyond
\* the number of schema children is fatal and no Record is returned; when
\* every such position holds 0 they are ignored: the call returns (the
\* children being numbers, which raise nothing).
C6_UnknownFRN ==
  (pc # "call" /\ schema.tag = "fspec" /\ BitmapOctets >= 1) =>
    /\ ExtraBit => (pc = "raise" /\ ~last.ok /\ last.fields = EmptyDict)
    /\ (~ExtraBit /\ PlainKids) => pc = "return"

\* Four children and the octet 0b00001010: positions 4 and 6 hold 1.
C6_Witness ==
  /\ pc = "raise"
  /\ schema.tag = "fspec"
  /\ Len(schema.children) = 4
  /\ stream = <<10>>
  /\ ExtraBit

====
